---- MODULE Spec2Model ----
(***************************************************************************)
(* Model of siglatools' MongoDBDatabase loader                             *)
(* (src/siglatools/databases/mongodb_database.py).                         *)
(*                                                                         *)
(* The store is a map from collection name to the list of its documents    *)
(* in natural (insertion) order.  A document is a function over Fields;    *)
(* an absent key and a null value are both the field's None value, which   *)
(* is what Python's dict.get and MongoDB's equality match on null see.     *)
(* Strings stand for themselves, ObjectIds are naturals drawn from a       *)
(* counter.                                                                *)
(***************************************************************************)
EXTENDS Integers, Sequences, FiniteSets, TLC

\* ------------------------------------------------------------------ bounds
MaxLoads == 2
MaxRows == 2
MaxChilds == 1
MaxNames == 2

\* ------------------------------------------------------------- documents
IntFields == {"_id", "institution", "variable_index", "sigla_answer_index",
              "variable", "index"}
SeqFields == {"sigla_answer", "variables", "sigla_answers"}
StrFields == {"name", "category", "country", "data", "heading", "type"}
Fields == IntFields \cup SeqFields \cup StrFields

NoneStr == "None"
NoneInt == 0 - 1
NoneSeq == << >>

\* The value Python's None / a missing key has in field k.
NoneOf(k) == IF k \in IntFields THEN NoneInt
             ELSE IF k \in SeqFields THEN NoneSeq ELSE NoneStr

\* dict.get(k)
Get(d, k) == IF k \in DOMAIN d THEN d[k] ELSE NoneOf(k)

EmptyDoc == [k \in Fields |-> NoneOf(k)]

\* ---------------------------------------------------------- collections
institutions == "institutions"
variables == "variables"
legal_framework == "legal_framework"
body_of_law == "body_of_law"
DataTypes == {legal_framework, body_of_law}
Collections == {institutions, variables} \cup DataTypes

\* VariableType
composite == "composite"
aggregate == "aggregate"
standard == "standard"

\* GoogleSheetsFormat
standard_institution == "standard_institution"
institution_by_rows == "institution_by_rows"
institution_and_composite_variable == "institution_and_composite_variable"
composite_variable == "composite_variable"
multiple_sigla_answer_variable == "multiple_sigla_answer_variable"

\* ------------------------------------------------- the store's operations
\* A query document of equality conditions matches a document.
Matches(doc, filter) == \A k \in DOMAIN filter : doc[k] = filter[k]

\* Index of the first document from position i on that matches, 0 if none.
RECURSIVE FirstMatch(_, _, _)
FirstMatch(coll, filter, i) ==
    IF i > Len(coll) THEN 0
    ELSE IF Matches(coll[i], filter) THEN i
    ELSE FirstMatch(coll, filter, i + 1)

\* Variant of ApplySet: {"$setOnInsert": set}, a field that holds a value
\* keeps it.
ApplySetOnInsert(doc, set) ==
    [k \in Fields |-> IF k \in DOMAIN set /\ doc[k] = NoneOf(k)
                      THEN set[k] ELSE doc[k]]

\* {"$set": set} applied to a document.
ApplySet(doc, set) ==
    [k \in Fields |-> IF k \in DOMAIN set THEN set[k] ELSE doc[k]]

\* The document an upsert inserts: the filter's equality fields, then $set.
UpsertedDoc(filter, set, newId) ==
    [ApplySet(ApplySet(EmptyDoc, filter), set) EXCEPT !["_id"] = newId]

\* Variant of UpdateOne: a matched document is deleted and the updated
\* document inserted under a new _id.
ReplaceOne(coll, filter, set, newId) ==
    LET i == FirstMatch(coll, filter, 1)
    IN  IF i > 0
        THEN [coll |-> Append([k \in 1..(Len(coll) - 1) |->
                                  IF k < i THEN coll[k] ELSE coll[k + 1]],
                              [ApplySet(coll[i], set) EXCEPT !["_id"] = newId]),
              upserted |-> newId, touched |-> newId]
        ELSE [coll |-> Append(coll, UpsertedDoc(filter, set, newId)),
              upserted |-> newId, touched |-> newId]

\* Variant of UpdateOne: InsertOne of the same document, whatever the
\* collection holds.
InsertOne(coll, filter, set, newId) ==
    [coll |-> Append(coll, UpsertedDoc(filter, set, newId)),
     upserted |-> newId, touched |-> newId]

\* UpdateOne(filter, {"$set": set}, upsert=True) on one collection.
UpdateOne(coll, filter, set, newId) ==
    LET i == FirstMatch(coll, filter, 1)
    IN  IF i > 0
        THEN [coll |-> [coll EXCEPT ![i] = ApplySet(@, set)],
              upserted |-> NoneInt, touched |-> coll[i]["_id"]]
        ELSE [coll |-> Append(coll, UpsertedDoc(filter, set, newId)),
              upserted |-> newId, touched |-> newId]

\* The requests of a bulk_write applied in order from request i on.
\* acc = [coll, upserted_ids, touched, nextId].
RECURSIVE ApplyRequests(_, _, _)
ApplyRequests(acc, requests, i) ==
    IF i > Len(requests) THEN acc
    ELSE LET r == UpdateOne(acc.coll, requests[i].filter, requests[i].set,
                            acc.nextId)
         IN  ApplyRequests(
                 [coll |-> r.coll,
                  upserted_ids |-> Append(acc.upserted_ids, r.upserted),
                  touched |-> acc.touched \cup {r.touched},
                  nextId |-> IF r.upserted = NoneInt THEN acc.nextId
                             ELSE acc.nextId + 1],
                 requests, i + 1)

\* Collection.bulk_write(requests): pymongo refuses an empty request list
\* (InvalidOperation) before anything is sent to the server.
BulkWrite(coll, requests, id) ==
    IF requests = << >>
    THEN [ok |-> FALSE, coll |-> coll, upserted_ids |-> << >>,
          touched |-> {}, nextId |-> id]
    ELSE [ok |-> TRUE] @@
         ApplyRequests([coll |-> coll, upserted_ids |-> << >>,
                        touched |-> {}, nextId |-> id], requests, 1)

\* Collection.find(filter): the matching documents in natural order.
Find(coll, Pred(_)) == SelectSeq(coll, Pred)

\* _id of every document of a cursor.
Ids(docs) == [i \in 1..Len(docs) |-> docs[i]["_id"]]

\* ------------------------------------------------------------- outcomes
OK == "ok"
UnableToFindDocument == "UnableToFindDocument"
UnrecognizedGoogleSheetsFormat == "UnrecognizedGoogleSheetsFormat"
InvalidOperation == "InvalidOperation"
AttributeError == "AttributeError"

NoError == [kind |-> OK, sheet_title |-> NoneStr, collection |-> NoneStr,
            format |-> NoneStr, data_type |-> NoneStr]

\* No document of any collection.
Nothing == [c \in Collections |-> {}]

\* The _ids a bulk_write matched or upserted in collection c.
Touched(c, ids) == [Nothing EXCEPT ![c] = ids]

\* The result of a (partial) load: the store, the id counter, the exception
\* raised (NoError if none) and, per collection, the _ids of the documents
\* the load's requests matched or upserted.
Result(d, id, err, ids) ==
    [db |-> d, nextId |-> id, error |-> err, written |-> ids]

Raised(kind, title, coll, fmt, dt) ==
    [kind |-> kind, sheet_title |-> title, collection |-> coll,
     format |-> fmt, data_type |-> dt]

\* --------------------------------------------------- _load_institutions
\* Variant of the primary keys: data counted among them.
InstitutionPrimaryKeysWithData(meta_data) ==
    IF "country" \in DOMAIN meta_data
    THEN {"name", "category", "country", "data"}
    ELSE {"name", "category", "data"}

\* institution_primary_keys
InstitutionPrimaryKeys(meta_data) ==
    IF "country" \in DOMAIN meta_data
    THEN {"name", "category", "country"}
    ELSE {"name", "category"}

\* {pk: institution.get(pk) for pk in institution_primary_keys}
InstitutionFilter(institution, meta_data) ==
    [pk \in InstitutionPrimaryKeys(meta_data) |-> Get(institution, pk)]

\* One UpdateOne per institution of formatted_data.
InstitutionRequests(formatted_data, meta_data) ==
    [i \in 1..Len(formatted_data) |->
        [filter |-> InstitutionFilter(formatted_data[i], meta_data),
         set |-> [key \in DOMAIN formatted_data[i] \ {"childs"} |->
                     formatted_data[i][key]]]]

\* Variant of institution_doc_id_dict[i]: the i-th created identity, as if
\* the bulk result listed the created documents without their request
\* index.
InstitutionDocIdByCreation(coll, formatted_data, meta_data, upserted_ids, i) ==
    LET Created(x) == x # NoneInt
        created == SelectSeq(upserted_ids, Created)
        j == FirstMatch(coll,
                 InstitutionFilter(formatted_data[i], meta_data), 1)
    IN  IF i <= Len(created) THEN created[i]
        ELSE IF j = 0 THEN NoneInt ELSE coll[j]["_id"]

\* Variant of institution_doc_id_dict[i]: the position of the institution
\* in formatted_data.
InstitutionDocIdByIndex(coll, formatted_data, meta_data, upserted_ids, i) ==
    i

\* institution_doc_id_dict[i]: the upserted id, else the _id of find_one by
\* the primary keys (NoneInt stands for find_one returning None).
InstitutionDocId(coll, formatted_data, meta_data, upserted_ids, i) ==
    IF upserted_ids[i] # NoneInt THEN upserted_ids[i]
    ELSE LET j == FirstMatch(coll,
                     InstitutionFilter(formatted_data[i], meta_data), 1)
         IN  IF j = 0 THEN NoneInt ELSE coll[j]["_id"]

\* The UpdateOne of one child of an institution whose _id is instId.
VariableRequest(instId, child) ==
    [filter |-> [institution |-> instId,
                 heading |-> Get(child, "heading"),
                 name |-> Get(child, "name"),
                 variable_index |-> Get(child, "variable_index"),
                 sigla_answer_index |-> Get(child, "sigla_answer_index")],
     set |-> child @@ [institution |-> instId]]

\* The variable requests of institutions i.. in order, children in order.
RECURSIVE VariableRequests(_, _, _)
VariableRequests(formatted_data, ids, i) ==
    IF i > Len(formatted_data) THEN << >>
    ELSE [c \in 1..Len(formatted_data[i].childs) |->
             VariableRequest(ids[i], formatted_data[i].childs[c])]
         \o VariableRequests(formatted_data, ids, i + 1)

LoadInstitutions(d, id, sheet) ==
    LET fd == sheet.formatted_data
        md == sheet.meta_data
        ir == BulkWrite(d[institutions], InstitutionRequests(fd, md), id)
        ids == [i \in 1..Len(fd) |->
                   InstitutionDocId(ir.coll, fd, md, ir.upserted_ids, i)]
        d1 == [d EXCEPT ![institutions] = ir.coll]
        vr == BulkWrite(d1[variables], VariableRequests(fd, ids, 1),
                        ir.nextId)
    IN  IF ~ir.ok
        THEN Result(d, id, Raised(InvalidOperation, sheet.sheet_title,
                                  institutions, NoneStr, NoneStr), Nothing)
        ELSE IF \E i \in 1..Len(fd) : ids[i] = NoneInt
        THEN Result(d1, ir.nextId,
                    Raised(AttributeError, sheet.sheet_title, institutions,
                           NoneStr, NoneStr),
                    Touched(institutions, ir.touched))
        ELSE IF ~vr.ok
        THEN Result(d1, ir.nextId,
                    Raised(InvalidOperation, sheet.sheet_title, variables,
                           NoneStr, NoneStr),
                    Touched(institutions, ir.touched))
        ELSE Result([d1 EXCEPT ![variables] = vr.coll], vr.nextId, NoError,
                    [Touched(institutions, ir.touched)
                         EXCEPT ![variables] = vr.touched])

\* ------------------------------------------- _create_variable_reference
\* str.strip() on the pieces of meta_data["name"] this model draws.
Strip(s) == IF s = " B" THEN "B" ELSE IF s = " C" THEN "C" ELSE s

\* meta_data["name"] is held as the list of its pieces between semicolons
\* (the result of split(";")); institution_names strips each piece.
InstitutionNames(meta_data) ==
    [i \in 1..Len(Get(meta_data, "name")) |-> Strip(Get(meta_data, "name")[i])]

Range(s) == {s[i] : i \in 1..Len(s)}

\* _id of the institutions whose name is $in the names, same country and
\* category.
InstitutionDocsId(d, meta_data) ==
    LET names == Range(InstitutionNames(meta_data))
        Hit(doc) == /\ doc["name"] \in names
                    /\ doc["country"] = Get(meta_data, "country")
                    /\ doc["category"] = Get(meta_data, "category")
    IN  Ids(Find(d[institutions], Hit))

\* _id of the composite variables of those institutions with the sheet's
\* variable_heading and variable_name.
VariableDocsId(d, meta_data) ==
    LET insts == Range(InstitutionDocsId(d, meta_data))
        Hit(doc) == /\ doc["institution"] \in insts
                    /\ doc["heading"] = Get(meta_data, "variable_heading")
                    /\ doc["name"] = Get(meta_data, "variable_name")
                    /\ doc["type"] = composite
    IN  Ids(Find(d[variables], Hit))

\* Variant of the count test: at least as many variables as names.
ReferenceFoundAtLeast(variable_docs_id, institution_names) ==
    Len(variable_docs_id) >= Len(institution_names)

\* The count test that raises UnableToFindDocument.
ReferenceFound(variable_docs_id, institution_names) ==
    Len(variable_docs_id) = Len(institution_names)

\* Variant of the reference: its shape chosen by the number of variables,
\* not by the data type.
VariableReferenceByCount(variable_docs_id, meta_data) ==
    IF Len(variable_docs_id) > 1
    THEN [variables |-> variable_docs_id]
    ELSE [variable |-> variable_docs_id[1]]

\* The reference returned when the count test passes.
VariableReference(variable_docs_id, meta_data) ==
    IF Get(meta_data, "data_type") = legal_framework
    THEN [variables |-> variable_docs_id]
    ELSE [variable |-> variable_docs_id[1]]

\* --------------------------------------------- _load_composite_variable
\* One UpdateOne per row: filter {**reference, index}, $set {**reference,
\* **datum}.
CompositeRequests(variable_reference, formatted_data) ==
    [i \in 1..Len(formatted_data) |->
        [filter |-> [index |-> Get(formatted_data[i], "index")]
                    @@ variable_reference,
         set |-> formatted_data[i] @@ variable_reference]]

LoadCompositeVariable(d, id, sheet) ==
    LET md == sheet.meta_data
        data_type == Get(md, "data_type")
        vids == VariableDocsId(d, md)
        br == BulkWrite(d[data_type],
                  CompositeRequests(VariableReference(vids, md),
                                    sheet.formatted_data), id)
    IN  IF ~ReferenceFound(vids, InstitutionNames(md))
        THEN Result(d, id, Raised(UnableToFindDocument, sheet.sheet_title,
                                  variables, NoneStr, NoneStr), Nothing)
        ELSE IF ~br.ok
        THEN Result(d, id, Raised(InvalidOperation, sheet.sheet_title,
                                  data_type, NoneStr, NoneStr), Nothing)
        ELSE Result([d EXCEPT ![data_type] = br.coll], br.nextId, NoError,
                    Touched(data_type, br.touched))

\* ------------------------------------------------------------ _find_one
\* find_one_and_update(primary_keys, {"$set": primary_keys}, upsert=True,
\* return_document=AFTER): [coll, doc, nextId].
FindOne(coll, primary_keys, id) ==
    LET r == UpdateOne(coll, primary_keys, primary_keys, id)
        i == FirstMatch(r.coll, [_id |-> r.touched], 1)
    IN  [coll |-> r.coll, doc |-> r.coll[i],
         nextId |-> IF r.upserted = NoneInt THEN id ELSE id + 1]

\* ------------------------------ _load_institution_with_aggregate_variable
\* Python's order on the strings this model draws.
Alphabet == <<"A", "B", "C">>
StrRank(s) == CHOOSE i \in 1..Len(Alphabet) : Alphabet[i] = s
StrLess(a, b) == StrRank(a) < StrRank(b)

\* list.sort() by insertion.
RECURSIVE Insert(_, _)
Insert(sorted, x) ==
    IF sorted = << >> THEN <<x>>
    ELSE IF StrLess(x, Head(sorted)) THEN <<x>> \o sorted
    ELSE <<Head(sorted)>> \o Insert(Tail(sorted), x)

RECURSIVE Sort(_)
Sort(s) == IF s = << >> THEN << >> ELSE Insert(Sort(Tail(s)), Head(s))

\* datum["sigla_answers"][0]["answer"]
HeadingOf(datum) == Head(Get(datum, "sigla_answers"))

\* variable_heading_list before the sort: the distinct first answers, in
\* order of first appearance among rows 1..n.
RECURSIVE HeadingList(_, _)
HeadingList(formatted_data, n) ==
    IF n = 0 THEN << >>
    ELSE LET before == HeadingList(formatted_data, n - 1)
             h == HeadingOf(formatted_data[n])
         IN  IF h \in Range(before) THEN before ELSE Append(before, h)

\* Variant of variable_heading_list: left in order of first appearance.
VariableHeadingListUnsorted(formatted_data) ==
    HeadingList(formatted_data, Len(formatted_data))

\* variable_heading_list after variable_heading_list.sort()
VariableHeadingList(formatted_data) ==
    Sort(HeadingList(formatted_data, Len(formatted_data)))

\* Variant of variable_heading_dict[h]: each row headed h replaces the
\* entry instead of being appended to it.
VariableHeadingDictLast(formatted_data, h) ==
    LET Headed(datum) == HeadingOf(datum) = h
        rows == SelectSeq(formatted_data, Headed)
    IN  <<Tail(Get(rows[Len(rows)], "sigla_answers"))>>

\* variable_heading_dict[h]: sigla_answers[1:] of the rows headed h, in
\* row order.
VariableHeadingDict(formatted_data, h) ==
    LET Headed(datum) == HeadingOf(datum) = h
        rows == SelectSeq(formatted_data, Headed)
    IN  [i \in 1..Len(rows) |-> Tail(Get(rows[i], "sigla_answers"))]

\* The aggregate variables, one per heading, indexed from 0 in list order.
AggregateVariables(formatted_data, instId) ==
    LET hl == VariableHeadingList(formatted_data)
    IN  [i \in 1..Len(hl) |->
            [institution |-> instId, name |-> hl[i], heading |-> hl[i],
             sigla_answer |-> VariableHeadingDict(formatted_data, hl[i]),
             type |-> aggregate, variable_index |-> i - 1,
             sigla_answer_index |-> 0]]

\* The filter of an aggregate variable's UpdateOne.
AggregateFilter(variable) ==
    [institution |-> variable.institution, name |-> variable.name,
     variable_index |-> variable.variable_index,
     sigla_answer_index |-> variable.sigla_answer_index]

AggregateRequests(vars) ==
    [i \in 1..Len(vars) |-> [filter |-> AggregateFilter(vars[i]),
                             set |-> vars[i]]]

LoadInstitutionWithAggregateVariable(d, id, sheet) ==
    LET md == sheet.meta_data
        institution == [name |-> Get(md, "variable_heading"),
                        country |-> Get(md, "country"),
                        category |-> Get(md, "category")]
        fo == FindOne(d[institutions], institution, id)
        d1 == [d EXCEPT ![institutions] = fo.coll]
        br == BulkWrite(d1[variables],
                  AggregateRequests(
                      AggregateVariables(sheet.formatted_data,
                                         fo.doc["_id"])), fo.nextId)
    IN  IF ~br.ok
        THEN Result(d1, fo.nextId,
                    Raised(InvalidOperation, sheet.sheet_title, variables,
                           NoneStr, NoneStr),
                    Touched(institutions, {fo.doc["_id"]}))
        ELSE Result([d1 EXCEPT ![variables] = br.coll], br.nextId, NoError,
                    [Touched(institutions, {fo.doc["_id"]})
                         EXCEPT ![variables] = br.touched])

\* ------------------------------ _load_institution_and_composite_variable
\* Variant: the institution and its aggregate variables first, then the
\* composite variable.
LoadAggregateThenComposite(d, id, sheet) ==
    LET a == LoadInstitutionWithAggregateVariable(d, id, sheet)
        c == LoadCompositeVariable(a.db, a.nextId, sheet)
    IN  IF a.error.kind # OK THEN a
        ELSE [c EXCEPT !.written =
                 [k \in Collections |-> c.written[k] \cup a.written[k]]]

LoadInstitutionAndCompositeVariable(d, id, sheet) ==
    LET c == LoadCompositeVariable(d, id, sheet)
        a == LoadInstitutionWithAggregateVariable(c.db, c.nextId, sheet)
    IN  IF c.error.kind # OK THEN c
        ELSE [a EXCEPT !.written =
                 [k \in Collections |-> c.written[k] \cup a.written[k]]]

\* ----------------------------------------------------------------- load
\* The keys of _load_function_dict.
LoadFunctionKeys ==
    {standard_institution, institution_by_rows,
     institution_and_composite_variable, composite_variable,
     multiple_sigla_answer_variable}

\* Variant of load: _load_function_dict maps composite_variable to
\* _load_institution_and_composite_variable.
LoadSheetCombined(d, id, sheet) ==
    LET key == Get(sheet.meta_data, "format")
    IN  IF key \notin LoadFunctionKeys
        THEN Result(d, id,
                    Raised(UnrecognizedGoogleSheetsFormat, sheet.sheet_title,
                           NoneStr, key, Get(sheet.meta_data, "data_type")),
                    Nothing)
        ELSE IF key \in {institution_and_composite_variable,
                         composite_variable}
        THEN LoadInstitutionAndCompositeVariable(d, id, sheet)
        ELSE LoadInstitutions(d, id, sheet)

\* Variant of load: _load_function_dict.get(key, _load_institutions).
LoadSheetDefault(d, id, sheet) ==
    LET key == Get(sheet.meta_data, "format")
    IN  IF key = institution_and_composite_variable
        THEN LoadInstitutionAndCompositeVariable(d, id, sheet)
        ELSE IF key = composite_variable
        THEN LoadCompositeVariable(d, id, sheet)
        ELSE LoadInstitutions(d, id, sheet)

\* load(formatted_sheet_data) on store d with id counter id.
LoadSheet(d, id, sheet) ==
    LET key == Get(sheet.meta_data, "format")
    IN  IF key \notin LoadFunctionKeys
        THEN Result(d, id,
                    Raised(UnrecognizedGoogleSheetsFormat, sheet.sheet_title,
                           NoneStr, key, Get(sheet.meta_data, "data_type")),
                    Nothing)
        ELSE IF key = institution_and_composite_variable
        THEN LoadInstitutionAndCompositeVariable(d, id, sheet)
        ELSE IF key = composite_variable
        THEN LoadCompositeVariable(d, id, sheet)
        ELSE LoadInstitutions(d, id, sheet)

\* Variant of clean_up: the two fixed collections only.
CleanedUpFixed(d) ==
    [c \in DOMAIN d |-> IF c \in {institutions, variables} THEN << >>
                        ELSE d[c]]

\* clean_up(): delete_many({}) on every collection.
CleanedUp(d) == [c \in DOMAIN d |-> << >>]

\* The store of a database never loaded.
NeverUsed == [c \in Collections |-> << >>]

\* ------------------------------------------------------------ the sheets
\* Sequences over S of length lo..hi.
SeqsOf(S, lo, hi) == UNION {[1..n -> S] : n \in lo..hi}

Names == {"A", "B"}
Headings == {"A", "B"}
VariableNames == {"B"}
Categories == {"c"}
Countries == {"US"}
DataValues == {"d1", "d2"}
SheetTitle == "sheet"

\* A key that may be missing from a dict: the empty dict or {key: v}.
Optional(key, S) == {<< >>} \cup {[k \in {key} |-> v] : v \in S}

\* The child variables of an institution row.
ChildsOf(headings, types, indexes) ==
    [heading : headings, name : VariableNames, type : types,
     variable_index : indexes, sigla_answer_index : {0}]

\* The institution rows of a sheet: each row carries the sheet's category
\* and, when the sheet has one, its country (co is {} or {country: v}).
InstitutionRows(cat, co, data, childs) ==
    {[name |-> n, category |-> cat, data |-> dv, childs |-> ch] @@ co :
        n \in Names, dv \in data, ch \in SeqsOf(childs, 0, MaxChilds)}

\* The sheets of format f with lo..hi rows.
InstitutionSheetsOf(f, data, childs, lo, hi) ==
    UNION {{[sheet_title |-> SheetTitle,
             meta_data |-> [format |-> f, category |-> cat] @@ co,
             formatted_data |-> fd] :
                fd \in SeqsOf(InstitutionRows(cat, co, data, childs),
                              lo, hi)} :
           cat \in Categories, co \in Optional("country", Countries)}

\* Children that composite sheets can refer to: composite variables under
\* either heading, two per heading.
CompositeChilds == ChildsOf(Headings, {composite}, {0, 1})

\* standard_institution and multiple_sigla_answer_variable sheets describe
\* one institution, institution_by_rows sheets one institution per row.
InstitutionSheets ==
    InstitutionSheetsOf(institution_by_rows, {"d1"}, CompositeChilds,
                        1, MaxRows)
    \cup InstitutionSheetsOf(standard_institution, {"d1"}, CompositeChilds,
                             1, 1)
    \cup InstitutionSheetsOf(multiple_sigla_answer_variable, {"d1"},
                             CompositeChilds, 1, 1)

\* The rows of a composite variable: row i carries index i - 1 and its
\* answers, the first of which is the heading in the combined format.
CompositeRows(answers) ==
    {[i \in 1..Len(a) |-> [index |-> i - 1, sigla_answers |-> a[i]]] :
        a \in SeqsOf({<<h, x>> : h \in Headings, x \in answers}, 1, MaxRows)}

\* meta_data["name"]: "A", "A; B", ... as the pieces between semicolons.
NameLists == {SubSeq(<<"A", " B", " C">>, 1, n) : n \in 1..MaxNames}

CompositeSheetsOf(formats, answers) ==
    {[sheet_title |-> SheetTitle,
      meta_data |-> [format |-> f, name |-> nl, category |-> cat,
                     variable_heading |-> vh, variable_name |-> vn,
                     data_type |-> dt] @@ co,
      formatted_data |-> fd] :
        f \in formats, nl \in NameLists, cat \in Categories, vh \in Headings,
        vn \in VariableNames, dt \in DataTypes,
        co \in Optional("country", Countries),
        fd \in CompositeRows(answers)}

CompositeSheets ==
    CompositeSheetsOf({composite_variable,
                       institution_and_composite_variable}, {"x"})

\* Sheets whose format no load function is registered for: an unknown tag,
\* and meta_data without "format".
UnrecognizedSheets ==
    {[sheet_title |-> SheetTitle, meta_data |-> md,
      formatted_data |-> << >>] :
        md \in {[format |-> "unknown_shape", data_type |-> body_of_law],
                [data_type |-> legal_framework]}}

Sheets == InstitutionSheets \cup CompositeSheets \cup UnrecognizedSheets

\* ------------------------------------------------------------ the machine
VARIABLES
    db,      \* collection name -> documents in natural order
    nextId,  \* the next ObjectId the store hands out
    loads,   \* number of load() calls made
    last,    \* the last call: its sheet, its outcome, the store before it
    calls    \* per concurrent caller, the position and locals of its call

vars == <<db, nextId, loads, last, calls>>

\* The callers of the concurrent specifications.
Callers == {1, 2}

\* No concurrent call under way.
NoCalls == [p \in Callers |-> [pc |-> "idle"]]

NoCall == [op |-> "none", sheet |-> << >>, error |-> NoError,
           pre |-> << >>, preId |-> 0, written |-> Nothing]

Init ==
    /\ db = [c \in Collections |-> << >>]
    /\ nextId = 1
    /\ loads = 0
    /\ last = NoCall
    /\ calls = NoCalls

\* load(formatted_sheet_data)
Load(sheet) ==
    /\ loads < MaxLoads
    /\ LET r == LoadSheet(db, nextId, sheet)
       IN  /\ db' = r.db
           /\ nextId' = r.nextId
           /\ last' = [op |-> "load", sheet |-> sheet, error |-> r.error,
                       pre |-> db, preId |-> nextId, written |-> r.written]
    /\ loads' = loads + 1
    /\ UNCHANGED calls

\* clean_up()
CleanUp ==
    /\ last.op = "load"
    /\ db' = CleanedUp(db)
    /\ last' = [op |-> "clean_up", sheet |-> << >>, error |-> NoError,
                pre |-> db, preId |-> nextId, written |-> Nothing]
    /\ UNCHANGED <<nextId, loads, calls>>

Next == \E sheet \in Sheets : Load(sheet)

Spec == Init /\ [][Next]_vars

\* Sheets that come in versions: institution sheets whose rows differ in a
\* non-key field (data, a child's type), and composite_variable sheets.
UpdateSheets ==
    InstitutionSheetsOf(institution_by_rows, DataValues,
                        ChildsOf({"A"}, {composite, standard}, {0}),
                        1, MaxRows)
    \cup CompositeSheetsOf({composite_variable}, {"x"})

NextUpdate == \E sheet \in UpdateSheets : Load(sheet)

SpecUpdate == Init /\ [][NextUpdate]_vars

\* The versions of a sheet whose institutions keep or drop one composite
\* child and differ in data.
VersionSheets ==
    InstitutionSheetsOf(institution_by_rows, DataValues,
                        ChildsOf({"A"}, {composite}, {0}),
                        1, MaxRows)
    \cup CompositeSheetsOf({composite_variable}, {"x"})

NextVersion == \E sheet \in VersionSheets : Load(sheet)

SpecVersions == Init /\ [][NextVersion]_vars

\* ------------------------------------------- two callers of _find_one
\* The primary keys _load_institution_with_aggregate_variable passes.
FindOneKeys ==
    {[name |-> n, country |-> co, category |-> "c"] :
        n \in Names, co \in {NoneStr} \cup Countries}

\* institutions before the calls: empty, or holding the document of a key.
FindOneStores ==
    {<< >>} \cup {FindOne(<< >>, key, 1).coll : key \in FindOneKeys}

\* The store before a concurrent run, kept for reference.
Before(d, id) ==
    [op |-> "concurrent", sheet |-> << >>, error |-> NoError,
     pre |-> d, preId |-> id, written |-> Nothing]

InitFindOne ==
    /\ \E coll \in FindOneStores :
          /\ db = [c \in Collections |->
                      IF c = institutions THEN coll ELSE << >>]
          /\ nextId = Len(coll) + 1
          /\ last = Before([c \in Collections |->
                               IF c = institutions THEN coll ELSE << >>],
                           Len(coll) + 1)
    /\ loads = 0
    /\ calls = NoCalls

\* _find_one(institutions, key) is called.
FindOneCall(p, key) ==
    /\ calls[p].pc = "idle"
    /\ calls' = [calls EXCEPT ![p] = [pc |-> "query", key |-> key,
                                      found |-> NoneInt, doc |-> NoneInt]]
    /\ UNCHANGED <<db, nextId, loads, last>>

\* find_one_and_update, query phase: the server looks for a match. No
\* unique index exists, so nothing orders this phase of one call against
\* the insert of another.
FindOneQuery(p) ==
    /\ calls[p].pc = "query"
    /\ LET i == FirstMatch(db[institutions], calls[p].key, 1)
       IN  calls' = [calls EXCEPT ![p].pc = "modify",
                                  ![p].found = IF i = 0 THEN NoneInt
                                               ELSE db[institutions][i]["_id"]]
    /\ UNCHANGED <<db, nextId, loads, last>>

\* find_one_and_update, modification phase: $set on the match, or the
\* upsert's insert; the document after the update is returned.
FindOneModify(p) ==
    /\ calls[p].pc = "modify"
    /\ IF calls[p].found # NoneInt
       THEN /\ db' = [db EXCEPT ![institutions] =
                         [i \in 1..Len(@) |->
                             IF @[i]["_id"] = calls[p].found
                             THEN ApplySet(@[i], calls[p].key) ELSE @[i]]]
            /\ nextId' = nextId
            /\ calls' = [calls EXCEPT ![p].pc = "done",
                                       ![p].doc = calls[p].found]
       ELSE /\ db' = [db EXCEPT ![institutions] =
                         Append(@, UpsertedDoc(calls[p].key, calls[p].key,
                                               nextId))]
            /\ nextId' = nextId + 1
            /\ calls' = [calls EXCEPT ![p].pc = "done", ![p].doc = nextId]
    /\ UNCHANGED <<loads, last>>

NextFindOne ==
    \E p \in Callers :
        \/ \E key \in FindOneKeys : FindOneCall(p, key)
        \/ FindOneQuery(p)
        \/ FindOneModify(p)

SpecFindOne == InitFindOne /\ [][NextFindOne]_vars

\* ----------------------------- two concurrent loads of one payload
\* The payloads: institution sheets whose rows may share a key and differ
\* in data or in a child's type.
ConcurrentPayloads ==
    InstitutionSheetsOf(institution_by_rows, DataValues,
                        ChildsOf({"A"}, {composite, standard}, {0}),
                        1, MaxRows)

\* The stores the two loads start on: never used, or loaded once with a
\* payload of one row.
ConcurrentStarts ==
    {[db |-> NeverUsed, nextId |-> 1]} \cup
    {[db |-> LoadSheet(NeverUsed, 1, sheet).db,
      nextId |-> LoadSheet(NeverUsed, 1, sheet).nextId] :
        sheet \in {x \in ConcurrentPayloads :
                      /\ Len(x.formatted_data) = 1
                      /\ "country" \notin DOMAIN x.meta_data
                      /\ x.formatted_data[1].data = "d1"}}

InitConcurrent ==
    /\ \E start \in ConcurrentStarts : \E sheet \in ConcurrentPayloads :
          /\ db = start.db
          /\ nextId = start.nextId
          /\ last = [Before(start.db, start.nextId) EXCEPT !.sheet = sheet]
    /\ loads = 0
    /\ calls = [p \in Callers |->
                   [pc |-> "institutions", i |-> 1, upserted_ids |-> << >>,
                    ids |-> << >>, error |-> OK]]

\* One UpdateOne of the institutions bulk_write of caller p.
InstitutionRequestStep(p) ==
    /\ calls[p].pc = "institutions"
    /\ LET fd == last.sheet.formatted_data
           req == InstitutionRequests(fd, last.sheet.meta_data)[calls[p].i]
           r == UpdateOne(db[institutions], req.filter, req.set, nextId)
       IN  /\ db' = [db EXCEPT ![institutions] = r.coll]
           /\ nextId' = IF r.upserted = NoneInt THEN nextId ELSE nextId + 1
           /\ calls' = [calls EXCEPT
                  ![p].upserted_ids = Append(@, r.upserted),
                  ![p].i = IF calls[p].i = Len(fd) THEN 1 ELSE @ + 1,
                  ![p].pc = IF calls[p].i = Len(fd) THEN "find" ELSE @]
    /\ UNCHANGED <<loads, last>>

\* One turn of the loop that fills institution_doc_id_dict of caller p.
FindOneStep(p) ==
    /\ calls[p].pc = "find"
    /\ LET fd == last.sheet.formatted_data
           id == InstitutionDocId(db[institutions], fd, last.sheet.meta_data,
                                  calls[p].upserted_ids, calls[p].i)
       IN  calls' = [calls EXCEPT
               ![p].ids = Append(@, id),
               ![p].i = IF calls[p].i = Len(fd) THEN 1 ELSE @ + 1,
               ![p].pc = IF id = NoneInt THEN "failed"
                         ELSE IF calls[p].i = Len(fd) THEN "variables"
                         ELSE @,
               ![p].error = IF id = NoneInt THEN AttributeError ELSE @]
    /\ UNCHANGED <<db, nextId, loads, last>>

\* One UpdateOne of the variables bulk_write of caller p, or its refusal
\* of an empty request list.
VariableRequestStep(p) ==
    /\ calls[p].pc = "variables"
    /\ LET reqs == VariableRequests(last.sheet.formatted_data,
                                    calls[p].ids, 1)
       IN  IF reqs = << >>
           THEN /\ calls' = [calls EXCEPT ![p].pc = "failed",
                                          ![p].error = InvalidOperation]
                /\ UNCHANGED <<db, nextId>>
           ELSE LET req == reqs[calls[p].i]
                    r == UpdateOne(db[variables], req.filter, req.set,
                                   nextId)
                IN  /\ db' = [db EXCEPT ![variables] = r.coll]
                    /\ nextId' = IF r.upserted = NoneInt THEN nextId
                                  ELSE nextId + 1
                    /\ calls' = [calls EXCEPT
                           ![p].i = @ + 1,
                           ![p].pc = IF calls[p].i = Len(reqs) THEN "done"
                                     ELSE @]
    /\ UNCHANGED <<loads, last>>

NextConcurrent ==
    \E p \in Callers :
        \/ InstitutionRequestStep(p)
        \/ FindOneStep(p)
        \/ VariableRequestStep(p)

SpecConcurrent == InitConcurrent /\ [][NextConcurrent]_vars

\* Loads of the sheets of at most one row, with clean_up() between them.
CleanUpSheets == {sheet \in Sheets : Len(sheet.formatted_data) <= 1}

NextCleanUp == (\E sheet \in CleanUpSheets : Load(sheet)) \/ CleanUp

SpecCleanUp == Init /\ [][NextCleanUp]_vars

\* ------------------------------------------------- reading the last call
Loaded == last.op = "load"
Succeeded == Loaded /\ last.error.kind = OK
MetaData == last.sheet.meta_data
Format == Get(MetaData, "format")
Rows == last.sheet.formatted_data

IsInstitutionLoad ==
    Loaded /\ Format \in {standard_institution, institution_by_rows,
                          multiple_sigla_answer_variable}
IsCompositeLoad ==
    Loaded /\ Format \in {composite_variable,
                          institution_and_composite_variable}
IsCombinedLoad == Loaded /\ Format = institution_and_composite_variable

DocsOf(d, c) == Range(d[c])
AllDocs(d) == UNION {DocsOf(d, c) : c \in DOMAIN d}

\* The documents of collection c the last load matched or upserted.
WrittenDocs(c) == {doc \in DocsOf(db, c) : doc["_id"] \in last.written[c]}

\* Natural keys.
InstitutionKey(doc) == <<doc["name"], doc["category"], doc["country"]>>
VariableKey(doc) ==
    <<doc["institution"], doc["heading"], doc["name"],
      doc["variable_index"], doc["sigla_answer_index"]>>
RowKey(doc) == <<doc["variable"], doc["variables"], doc["index"]>>

\* No two documents of a collection share a key.
UniqueKeys(coll, Key(_)) ==
    \A i, j \in 1..Len(coll) : i # j => Key(coll[i]) # Key(coll[j])

\* The names a sheet asks for, and the composite variables of the store
\* that hang under institutions of those names with the sheet's country,
\* category, variable_heading and variable_name.
RequestedNames(md) == {Strip(md["name"][i]) : i \in 1..Len(md["name"])}
NamedInstitutions(d, md) ==
    {doc \in DocsOf(d, institutions) :
        /\ doc["name"] \in RequestedNames(md)
        /\ doc["country"] = Get(md, "country")
        /\ doc["category"] = Get(md, "category")}
ResolvedVariables(d, md) ==
    {doc \in DocsOf(d, variables) :
        /\ doc["type"] = composite
        /\ doc["heading"] = Get(md, "variable_heading")
        /\ doc["name"] = Get(md, "variable_name")
        /\ \E inst \in NamedInstitutions(d, md) :
              doc["institution"] = inst["_id"]}

\* ---------------------------------------------------------------- claims

\* C1: a second load of the sheet just loaded successfully creates no
\* document in any collection and changes no field and no identity.
C1_Idempotent ==
    Succeeded =>
        LET again == LoadSheet(db, nextId, last.sheet)
        IN  again.db = db /\ again.nextId = nextId

\* A combined sheet was loaded and loads again without error, with
\* documents in institutions, variables and its data_type collection.
C1_Witness ==
    /\ Succeeded /\ IsCombinedLoad
    /\ LoadSheet(db, nextId, last.sheet).error.kind = OK
    /\ \A c \in {institutions, variables, Get(MetaData, "data_type")} :
          db[c] # << >>
    /\ db # last.pre

\* C2: no two institutions share {name, category, country}, no two
\* variables share {institution, heading, name, variable_index,
\* sigla_answer_index}, no two rows of a data_type collection share
\* {reference, index}.
C2_NaturalKeysUnique ==
    /\ UniqueKeys(db[institutions], InstitutionKey)
    /\ UniqueKeys(db[variables], VariableKey)
    /\ \A dt \in DataTypes : UniqueKeys(db[dt], RowKey)

\* C5: a composite load that resolves a number of composite variables
\* other than the number of names raises UnableToFindDocument on
\* `variables` and leaves every collection as it was.
C5_MismatchWritesNothing ==
    (/\ IsCompositeLoad
     /\ Cardinality(ResolvedVariables(last.pre, MetaData))
            # Len(MetaData["name"]))
    => /\ last.error.kind = UnableToFindDocument
       /\ last.error.collection = variables
       /\ last.error.sheet_title = last.sheet.sheet_title
       /\ db = last.pre
       /\ nextId = last.preId

\* A mismatch on a store that holds composite variables: one named
\* institution has its variable, the other is missing.
C5_Witness ==
    /\ IsCompositeLoad
    /\ last.error.kind = UnableToFindDocument
    /\ Cardinality(ResolvedVariables(last.pre, MetaData)) = 1
    /\ Len(MetaData["name"]) = 2

\* C6: a composite sheet naming several institutions, one of which has no
\* Institution document of the sheet's country and category, fails with
\* the reference mismatch and writes nothing.
C6_MissingInstitutionDetected ==
    (/\ IsCompositeLoad
     /\ Len(MetaData["name"]) > 1
     /\ \E n \in RequestedNames(MetaData) :
           \A inst \in NamedInstitutions(last.pre, MetaData) :
              inst["name"] # n)
    => /\ last.error.kind = UnableToFindDocument
       /\ db = last.pre

\* C7: a sheet whose format is none of the five raises
\* UnrecognizedGoogleSheetsFormat with the title, the tag and the
\* data_type, and the store is untouched.
C7_UnrecognizedFormat ==
    (/\ Loaded
     /\ Format \notin {"standard_institution", "institution_by_rows",
                       "institution_and_composite_variable",
                       "composite_variable",
                       "multiple_sigla_answer_variable"})
    => /\ last.error.kind = UnrecognizedGoogleSheetsFormat
       /\ last.error.sheet_title = last.sheet.sheet_title
       /\ last.error.format = Format
       /\ last.error.data_type = Get(MetaData, "data_type")
       /\ db = last.pre
       /\ nextId = last.preId

\* A sheet without "format" was refused on a store that holds documents.
C7_Witness ==
    /\ Loaded
    /\ "format" \notin DOMAIN MetaData
    /\ last.error.kind = UnrecognizedGoogleSheetsFormat
    /\ db[variables] # << >>

\* C8: every variable written by an institution load or by the aggregate
\* part of a combined load refers to an institution that is in
\* `institutions` when the load ends, never to None.
C8_ReferenceIntegrity ==
    \A doc \in DocsOf(db, variables) :
        /\ doc["institution"] # NoneInt
        /\ \E inst \in DocsOf(db, institutions) :
              inst["_id"] = doc["institution"]

\* An institution load wrote a variable under an institution it matched
\* rather than created.
C8_Witness ==
    /\ Succeeded /\ IsInstitutionLoad
    /\ \E doc \in WrittenDocs(variables) :
          \E inst \in DocsOf(last.pre, institutions) :
              inst["_id"] = doc["institution"]

\* Rank of heading h among the distinct headings of the rows.
HeadingRank(rows, h) ==
    Cardinality({g \in {HeadingOf(rows[i]) : i \in 1..Len(rows)} :
                    StrLess(g, h)})

\* The (heading, variable_index) pairs of the aggregate variables of rows.
HeadingIndexes(rows) ==
    LET vs == AggregateVariables(rows, 0)
    IN  {<<vs[i].heading, vs[i].variable_index>> : i \in 1..Len(vs)}

RowPermutations(rows) ==
    {[i \in 1..Len(rows) |-> rows[p[i]]] :
        p \in {q \in [1..Len(rows) -> 1..Len(rows)] :
                  \A i, j \in 1..Len(rows) : i # j => q[i] # q[j]}}

\* C9: a combined load gives each heading group the rank of its heading
\* among the sorted distinct headings, so every permutation of the rows
\* yields the same (heading, variable_index) pairs.
C9_DeterministicGrouping ==
    (Succeeded /\ IsCombinedLoad) =>
       /\ \A i \in 1..Len(Rows) :
             \E doc \in WrittenDocs(variables) :
                /\ doc["heading"] = HeadingOf(Rows[i])
                /\ doc["variable_index"] = HeadingRank(Rows, HeadingOf(Rows[i]))
       /\ \A doc \in WrittenDocs(variables) :
             doc["variable_index"] = HeadingRank(Rows, doc["heading"])
       /\ \A perm \in RowPermutations(Rows) :
             HeadingIndexes(perm) = HeadingIndexes(Rows)

\* A combined sheet whose rows come in the order B, A was loaded.
C9_Witness ==
    /\ Succeeded /\ IsCombinedLoad
    /\ Len(Rows) = 2
    /\ StrLess(HeadingOf(Rows[2]), HeadingOf(Rows[1]))

\* Number of variable references a row document carries.
ReferenceCount(doc) ==
    Len(doc["variables"]) + (IF doc["variable"] = NoneInt THEN 0 ELSE 1)

\* C10: every row a composite load writes carries as many
\* variable references as meta_data.name has names, whatever the data_type.
C10_ReferencePerName ==
    (Succeeded /\ IsCompositeLoad) =>
        \A doc \in WrittenDocs(Get(MetaData, "data_type")) :
            ReferenceCount(doc) = Len(MetaData["name"])

\* The other versions of a sheet: the sheets with its meta_data.
Versions(sheet) == {v \in UpdateSheets : v.meta_data = sheet.meta_data}
EditedVersions(sheet) ==
    {v \in VersionSheets : v.meta_data = sheet.meta_data}

\* The natural key of an institution row and of a child under institution
\* instId.
RowInstitutionKey(row) ==
    <<Get(row, "name"), Get(row, "category"), Get(row, "country")>>
ChildKey(instId, child) ==
    <<instId, Get(child, "heading"), Get(child, "name"),
      Get(child, "variable_index"), Get(child, "sigla_answer_index")>>

DocsWithKey(d, c, Key(_), key) == {doc \in DocsOf(d, c) : Key(doc) = key}

\* The document with the key is still the only one, is the same document
\* and holds the given values.
UpdatedInPlace(before, after, c, Key(_), key, values) ==
    Cardinality(DocsWithKey(before, c, Key, key)) = 1 =>
        /\ Cardinality(DocsWithKey(after, c, Key, key)) = 1
        /\ \A old \in DocsWithKey(before, c, Key, key) :
              \A new \in DocsWithKey(after, c, Key, key) :
                 /\ new["_id"] = old["_id"]
                 /\ \A k \in DOMAIN values : new[k] = values[k]

\* Row i is the last row of the sheet with its natural key.
LastWithKey(rows, i) ==
    \A j \in (i + 1)..Len(rows) :
        RowInstitutionKey(rows[j]) # RowInstitutionKey(rows[i])

\* Every institution row and every child of an institution sheet updated
\* the document that had its key.
InstitutionsUpdatedInPlace(before, after, rows) ==
    \A i \in 1..Len(rows) :
        LastWithKey(rows, i) =>
            /\ UpdatedInPlace(before, after, institutions, InstitutionKey,
                   RowInstitutionKey(rows[i]),
                   [k \in DOMAIN rows[i] \ {"childs"} |-> rows[i][k]])
            /\ \A inst \in DocsWithKey(before, institutions, InstitutionKey,
                                       RowInstitutionKey(rows[i])) :
                  \A c \in 1..Len(rows[i].childs) :
                     (\A c2 \in (c + 1)..Len(rows[i].childs) :
                         ChildKey(0, rows[i].childs[c2])
                             # ChildKey(0, rows[i].childs[c]))
                     => UpdatedInPlace(before, after, variables, VariableKey,
                            ChildKey(inst["_id"], rows[i].childs[c]),
                            rows[i].childs[c])

\* Every row of a composite sheet updated the row document that had its
\* reference and index.
RowsUpdatedInPlace(before, after, dt, written, rows) ==
    \A i \in 1..Len(rows) :
        \A doc \in {x \in DocsOf(after, dt) : x["_id"] \in written /\
                                               x["index"] = rows[i].index} :
            UpdatedInPlace(before, after, dt, RowKey, RowKey(doc), rows[i])

InstitutionContent(doc) == [k \in Fields \ {"_id"} |-> doc[k]]
InstitutionRef(d, id) ==
    {InstitutionContent(doc) : doc \in {x \in DocsOf(d, institutions) :
                                           x["_id"] = id}}
VariableContent(d, doc) ==
    <<[k \in Fields \ {"_id", "institution"} |-> doc[k]],
      InstitutionRef(d, doc["institution"])>>
VariableRef(d, id) ==
    {VariableContent(d, doc) : doc \in {x \in DocsOf(d, variables) :
                                           x["_id"] = id}}
RowContent(d, doc) ==
    <<[k \in Fields \ {"_id", "variable", "variables"} |-> doc[k]],
      VariableRef(d, doc["variable"]),
      [i \in 1..Len(doc["variables"]) |-> VariableRef(d, doc["variables"][i])]>>

\* The contents of a collection, each with the number of documents that
\* have it.
Counted(coll, Content(_)) ==
    {<<Content(coll[i]),
       Cardinality({j \in 1..Len(coll) : Content(coll[j]) = Content(coll[i])})>> :
        i \in 1..Len(coll)}

\* A store up to the identities of its documents.
Canon(d) ==
    LET V(doc) == VariableContent(d, doc)
        R(doc) == RowContent(d, doc)
    IN  [c \in DOMAIN d |->
            IF c = institutions THEN Counted(d[c], InstitutionContent)
            ELSE IF c = variables THEN Counted(d[c], V)
            ELSE Counted(d[c], R)]

\* C4 as claimed: loading any version v2 of the sheet after v1 leaves the
\* documents that loading v2 alone from the same store leaves.
C4_ConvergesToLatest ==
    Loaded =>
        \A v2 \in EditedVersions(last.sheet) :
            Canon(LoadSheet(db, nextId, v2).db)
                = Canon(LoadSheet(last.pre, last.preId, v2).db)

\* Every institution row of v1 has a row of v2 with its primary keys, every
\* child of v1 a child with its key under such a row, every composite row
\* an index of v2.
CarriesKeysOf(v2, v1) ==
    LET r1 == v1.formatted_data
        r2 == v2.formatted_data
    IN  IF Get(v1.meta_data, "format") = composite_variable
        THEN \A i \in 1..Len(r1) : \E j \in 1..Len(r2) :
                 r2[j].index = r1[i].index
        ELSE \A i \in 1..Len(r1) :
                /\ \E j \in 1..Len(r2) :
                      RowInstitutionKey(r2[j]) = RowInstitutionKey(r1[i])
                /\ \A c \in 1..Len(r1[i].childs) :
                      \E j \in 1..Len(r2) : \E c2 \in 1..Len(r2[j].childs) :
                         /\ RowInstitutionKey(r2[j]) = RowInstitutionKey(r1[i])
                         /\ ChildKey(0, r2[j].childs[c2])
                                = ChildKey(0, r1[i].childs[c])

\* C4 amended: for the institution formats and composite_variable, a
\* version v2 that carries every natural key of v1 leaves, loaded after
\* v1, the documents it leaves loaded alone.
C4_ConvergesWhenKeysKept ==
    Loaded =>
        \A v2 \in EditedVersions(last.sheet) :
            CarriesKeysOf(v2, last.sheet) =>
                Canon(LoadSheet(db, nextId, v2).db)
                    = Canon(LoadSheet(last.pre, last.preId, v2).db)

\* v1 was loaded on a store that held documents and has a version v2 of
\* other rows that keeps v1's keys, changes a document v1 wrote and
\* creates one more.
C4_Witness ==
    /\ Succeeded /\ IsInstitutionLoad
    /\ last.pre[institutions] # << >>
    /\ \E v2 \in EditedVersions(last.sheet) :
          /\ CarriesKeysOf(v2, last.sheet)
          /\ Len(v2.formatted_data) > Len(Rows)
          /\ LET r == LoadSheet(db, nextId, v2)
             IN  /\ r.error.kind = OK
                 /\ Len(r.db[institutions]) > Len(db[institutions])
                 /\ \E i \in 1..Len(db[institutions]) :
                       r.db[institutions][i] # db[institutions][i]

\* C11: every _id a collection held before a load is still in that
\* collection after it, whether the load succeeded or raised, and no
\* collection shrinks.
C11_LoadsNeverDelete ==
    Loaded =>
        \A c \in Collections :
            /\ Range(Ids(last.pre[c])) \subseteq Range(Ids(db[c]))
            /\ Len(db[c]) >= Len(last.pre[c])

\* A load on a store that held institutions and variables changed one of
\* their documents and added another.
C11_Witness ==
    /\ Loaded
    /\ last.pre[institutions] # << >> /\ last.pre[variables] # << >>
    /\ \E c \in {institutions, variables} :
          /\ Len(db[c]) > Len(last.pre[c])
          /\ \E i \in 1..Len(last.pre[c]) : db[c][i] # last.pre[c][i]

\* The institutions of store d that match a key of _find_one.
MatchingKey(d, key) == {doc \in DocsOf(d, institutions) : Matches(doc, key)}

\* C12: _find_one returns the matching document when there is one and
\* creates none; otherwise it creates one document of exactly the key
\* fields; two callers with one key on a store without a match create one
\* document between them and get the same identity.
C12_FindOneAtomic ==
    \A p \in Callers :
        calls[p].pc = "done" =>
            /\ \E doc \in MatchingKey(db, calls[p].key) :
                   doc["_id"] = calls[p].doc
            /\ MatchingKey(last.pre, calls[p].key) # {} =>
                   /\ MatchingKey(db, calls[p].key)
                          = MatchingKey(last.pre, calls[p].key)
            /\ MatchingKey(last.pre, calls[p].key) = {} =>
                   /\ \A doc \in MatchingKey(db, calls[p].key) :
                          doc = UpsertedDoc(calls[p].key, calls[p].key,
                                            doc["_id"])
                   /\ Cardinality(MatchingKey(db, calls[p].key)) = 1
                   /\ \A q \in Callers :
                          (calls[q].pc = "done"
                               /\ calls[q].key = calls[p].key)
                          => calls[q].doc = calls[p].doc

\* C13: after clean_up() every collection is empty, and any sheet loaded
\* next ends as it does on a never-used store, with the same documents up
\* to identities.
C13_FullWipe ==
    last.op = "clean_up" =>
        /\ \A c \in Collections : db[c] = << >>
        /\ \A sheet \in CleanUpSheets :
              LET after == LoadSheet(db, nextId, sheet)
                  fresh == LoadSheet(NeverUsed, 1, sheet)
              IN  /\ Canon(after.db) = Canon(fresh.db)
                  /\ after.error = fresh.error

\* clean_up() ran on a store with institutions, variables and rows of a
\* data_type collection, whose ids a fresh store would hand out again.
C13_Witness ==
    /\ last.op = "clean_up"
    /\ last.pre[institutions] # << >>
    /\ last.pre[variables] # << >>
    /\ \E dt \in DataTypes : last.pre[dt] # << >>
    /\ nextId > 1
    /\ \E sheet \in CleanUpSheets :
          LoadSheet(db, nextId, sheet).error.kind = OK

\* The institution a variable document refers to has the primary-key
\* values of the row.
ParentIs(d, v, row, md) ==
    \E inst \in DocsOf(d, institutions) :
        /\ inst["_id"] = v["institution"]
        /\ inst["name"] = Get(row, "name")
        /\ inst["category"] = Get(row, "category")
        /\ "country" \in DOMAIN md => inst["country"] = Get(row, "country")

\* C14: after a successful institution-format load, the variable written
\* for each child of each row refers to an institution with that row's
\* primary-key values, whether the row's institution was created by the
\* load or existed before.
C14_ParentIdentity ==
    (Succeeded /\ IsInstitutionLoad) =>
        \A i \in 1..Len(Rows) : \A c \in 1..Len(Rows[i].childs) :
            /\ \E v \in WrittenDocs(variables) :
                   ChildKey(0, v) = ChildKey(0, Rows[i].childs[c])
            /\ \A v \in WrittenDocs(variables) :
                   (/\ ChildKey(0, v) = ChildKey(0, Rows[i].childs[c])
                    /\ \A j \in 1..Len(Rows) : \A c2 \in 1..Len(Rows[j].childs) :
                          ChildKey(0, Rows[j].childs[c2])
                              = ChildKey(0, Rows[i].childs[c])
                          => RowInstitutionKey(Rows[j])
                                 = RowInstitutionKey(Rows[i]))
                   => ParentIs(db, v, Rows[i], MetaData)
            /\ \E v \in WrittenDocs(variables) :
                   /\ ChildKey(0, v) = ChildKey(0, Rows[i].childs[c])
                   /\ ParentIs(db, v, Rows[i], MetaData)

\* A two-row load with children under both rows: the institution of the
\* first row existed, the institution of the second was created.
C14_Witness ==
    /\ Succeeded /\ IsInstitutionLoad
    /\ Len(Rows) = 2
    /\ Rows[1].childs # << >> /\ Rows[2].childs # << >>
    /\ \E inst \in DocsOf(last.pre, institutions) :
          inst["name"] = Get(Rows[1], "name")
    /\ \A inst \in DocsOf(last.pre, institutions) :
          inst["name"] # Get(Rows[2], "name")

\* The variable identities a row document refers to.
References(doc) ==
    Range(doc["variables"])
        \cup (IF doc["variable"] = NoneInt THEN {} ELSE {doc["variable"]})

\* C15: a combined load resolves its reference and writes its rows before
\* it finds or creates the institution named by variable_heading and
\* before it writes an aggregate variable: when resolution fails the load
\* leaves institutions and variables as they were, and the rows of a
\* successful load refer to variables resolved on the store before the
\* load.
C15_CompositeFirst ==
    /\ (IsCombinedLoad /\ last.error.kind = UnableToFindDocument) =>
           /\ db = last.pre
           /\ nextId = last.preId
    /\ (Succeeded /\ IsCombinedLoad) =>
           \A doc \in WrittenDocs(Get(MetaData, "data_type")) :
               References(doc) \subseteq
                   {v["_id"] : v \in ResolvedVariables(last.pre, MetaData)}

\* Resolution failed on a store that holds institutions but not the one
\* named by variable_heading.
C15_Witness ==
    /\ IsCombinedLoad
    /\ last.error.kind = UnableToFindDocument
    /\ last.pre[institutions] # << >>
    /\ \A inst \in DocsOf(last.pre, institutions) :
          inst["name"] # Get(MetaData, "variable_heading")

\* C16: after a successful composite load every row document written
\* carries, for legal_framework, `variables` with all the variables
\* resolved on the store before the load and no `variable`; for any other
\* data_type, `variable` with one of them and no `variables`. Each row of
\* the sheet has its document, the only one of its {reference, index}.
C16_ResolverShape ==
    (Succeeded /\ IsCompositeLoad) =>
        LET dt == Get(MetaData, "data_type")
            resolved == {v["_id"] : v \in ResolvedVariables(last.pre, MetaData)}
            Shaped(doc) ==
                IF dt = legal_framework
                THEN /\ Range(doc["variables"]) = resolved
                     /\ Len(doc["variables"]) = Cardinality(resolved)
                     /\ doc["variable"] = NoneInt
                ELSE /\ doc["variables"] = << >>
                     /\ doc["variable"] \in resolved
        IN  /\ \A doc \in WrittenDocs(dt) :
                   /\ Shaped(doc)
                   /\ \E i \in 1..Len(Rows) : doc["index"] = Rows[i].index
                   /\ Cardinality({x \in DocsOf(last.pre, dt) :
                                      RowKey(x) = RowKey(doc)}) <= 1
                      => Cardinality({x \in DocsOf(db, dt) :
                                         RowKey(x) = RowKey(doc)}) = 1
            /\ \A i \in 1..Len(Rows) :
                   \E doc \in WrittenDocs(dt) : doc["index"] = Rows[i].index

\* Rows were written for two names and two resolved variables into a
\* collection other than legal_framework.
C16_Witness ==
    /\ Succeeded /\ IsCompositeLoad
    /\ Get(MetaData, "data_type") # legal_framework
    /\ Cardinality(ResolvedVariables(last.pre, MetaData)) = 2
    /\ Len(Rows) = 2
    /\ Cardinality(WrittenDocs(Get(MetaData, "data_type"))) = 2

\* The combined sheets with the meta_data of a sheet, their rows drawn
\* with two answers after the heading.
AnswerVersions(sheet) ==
    {v \in CompositeSheetsOf({institution_and_composite_variable},
                             {"x", "y"}) :
        v.meta_data = sheet.meta_data}

\* The positions of the rows headed h, and the k-th of them.
HeadedRows(rows, h) == {i \in 1..Len(rows) : rows[i].sigla_answers[1] = h}
KthHeaded(rows, h, k) ==
    CHOOSE i \in HeadedRows(rows, h) :
        Cardinality({j \in HeadedRows(rows, h) : j <= i}) = k

\* r is the result of loading combined sheet v: one aggregate variable per
\* distinct heading was written, under the institution named by
\* variable_heading, with the remaining answers of its rows in row order.
Collapsed(r, v) ==
    LET rows == v.formatted_data
        md == v.meta_data
        headings == {rows[i].sigla_answers[1] : i \in 1..Len(rows)}
        W == {doc \in DocsOf(r.db, variables) :
                 doc["_id"] \in r.written[variables]}
    IN  /\ Cardinality(W) = Cardinality(headings)
        /\ \A h \in headings :
              \E doc \in W :
                 /\ doc["name"] = h /\ doc["heading"] = h
                 /\ doc["type"] = aggregate
                 /\ doc["sigla_answer_index"] = 0
                 /\ \E inst \in DocsOf(r.db, institutions) :
                       /\ inst["_id"] = doc["institution"]
                       /\ inst["_id"] \in r.written[institutions]
                       /\ inst["name"] = Get(md, "variable_heading")
                       /\ inst["country"] = Get(md, "country")
                       /\ inst["category"] = Get(md, "category")
                 /\ Len(doc["sigla_answer"])
                        = Cardinality(HeadedRows(rows, h))
                 /\ \A k \in 1..Len(doc["sigla_answer"]) :
                       doc["sigla_answer"][k]
                           = Tail(rows[KthHeaded(rows, h, k)].sigla_answers)
        /\ Cardinality(UNION {{<<doc["_id"], k>> :
                                  k \in 1..Len(doc["sigla_answer"])} :
                               doc \in W}) = Len(rows)

\* C17: the aggregate part of a combined load writes one variable per
\* distinct heading: type aggregate, name = heading, sigla_answer_index 0,
\* under the institution named by variable_heading, its sigla_answer the
\* remaining answers of the rows of that heading in row order, one entry
\* per row.
C17_AggregateCollapse ==
    (Loaded /\ IsCombinedLoad) =>
        \A v \in AnswerVersions(last.sheet) :
            LET r == LoadSheet(last.pre, last.preId, v)
            IN  r.error.kind = OK => Collapsed(r, v)

\* A combined sheet of two rows under one heading, with different
\* answers, loads on the store the last load found.
C17_Witness ==
    /\ Loaded /\ IsCombinedLoad
    /\ \E v \in AnswerVersions(last.sheet) :
          /\ Len(v.formatted_data) = 2
          /\ v.formatted_data[1].sigla_answers[1]
                 = v.formatted_data[2].sigla_answers[1]
          /\ v.formatted_data[1].sigla_answers
                 # v.formatted_data[2].sigla_answers
          /\ LoadSheet(last.pre, last.preId, v).error.kind = OK

\* C18: a composite_variable load changes no collection but the one named
\* by data_type; a load of an institution format changes no data_type
\* collection, also when the store holds rows.
C18_Frame ==
    /\ (Loaded /\ Format = composite_variable) =>
           \A c \in Collections \ {Get(MetaData, "data_type")} :
               db[c] = last.pre[c]
    /\ IsInstitutionLoad =>
           \A dt \in DataTypes : db[dt] = last.pre[dt]
    /\ (Succeeded /\ Format = composite_variable) =>
           \A sheet \in InstitutionSheets :
               \A dt \in DataTypes :
                   LoadSheet(db, nextId, sheet).db[dt] = db[dt]

\* A composite_variable load wrote rows on a store with institutions and
\* variables, and an institution sheet that loads next creates documents.
C18_Witness ==
    /\ Succeeded /\ Format = composite_variable
    /\ db[Get(MetaData, "data_type")] # last.pre[Get(MetaData, "data_type")]
    /\ db[institutions] # << >> /\ db[variables] # << >>
    /\ \E sheet \in InstitutionSheets :
          LET r == LoadSheet(db, nextId, sheet)
          IN  r.error.kind = OK /\ r.nextId > nextId

\* Both concurrent loads have returned or raised.
BothEnded == \A p \in Callers : calls[p].pc \in {"done", "failed"}

\* The store is what one load of the payload leaves on the store the two
\* loads started on: the same documents up to identities, one per natural
\* key, every variable under an institution of the store.
AsOneLoad ==
    /\ Canon(db) = Canon(LoadSheet(last.pre, last.preId, last.sheet).db)
    /\ \A a, b \in DocsOf(db, institutions) :
          InstitutionKey(a) = InstitutionKey(b) => a = b
    /\ \A a, b \in DocsOf(db, variables) :
          VariableKey(a) = VariableKey(b) => a = b
    /\ \A v \in DocsOf(db, variables) :
          \E inst \in DocsOf(db, institutions) :
              inst["_id"] = v["institution"]

\* C19: two concurrent loads of one institution payload, their store
\* operations atomic and interleaved, both end without error and leave
\* the store one load leaves.
C19_ConcurrentLoads ==
    BothEnded =>
        /\ \A p \in Callers : calls[p].pc = "done"
        /\ AsOneLoad

====
